---- MODULE Spec2Model ----
(***************************************************************************)
(* Model of the multi-agent data analysis pipeline: CleanerAgent,          *)
(* AnalystAgent, VisualizerAgent and the LangGraph workflow of app.py.     *)
(*                                                                         *)
(* A DataFrame is a record [columns, dtypes, rows].  A cell is a record    *)
(* [nan, v]: nan = TRUE is a missing value (NaN/None); v is an integer in  *)
(* a "number" column, a sequence of characters in an "object" column and a *)
(* boolean in a "bool" column.  Floating-point results are kept as exact   *)
(* fractions [num, den]; den = 0 is NaN, which is what numpy yields for    *)
(* 0/0 and what pandas yields for the mean, median or quantile of an empty *)
(* column.                                                                 *)
(***************************************************************************)
EXTENDS Integers, Sequences, FiniteSets, TLC

(***************************************************************************)
(* Bounds of the explored inputs.                                          *)
(***************************************************************************)
MaxRows == 4
MaxWideRows == 2

(***************************************************************************)
(* Fractions.                                                              *)
(***************************************************************************)
Rat(n, d) == [num |-> n, den |-> d]
FromInt(n) == Rat(n, 1)
IsNaN(a) == a.den = 0
RatSub(a, b) == Rat(a.num * b.den - b.num * a.den, a.den * b.den)
RatAdd(a, b) == Rat(a.num * b.den + b.num * a.den, a.den * b.den)
RatMul(a, b) == Rat(a.num * b.num, a.den * b.den)
\* true division of numpy scalars: x / 0 is nan (or inf), never an exception
RatDiv(a, b) == Rat(a.num * b.den, a.den * b.num)
Sign(n) == IF n < 0 THEN -1 ELSE 1
\* comparisons with NaN are False
RatLt(a, b) ==
    /\ ~IsNaN(a) /\ ~IsNaN(b)
    /\ a.num * b.den * Sign(a.den) * Sign(b.den) < b.num * a.den * Sign(a.den) * Sign(b.den)
RatGt(a, b) == RatLt(b, a)
RatEq(a, b) == ~IsNaN(a) /\ ~IsNaN(b) /\ a.num * b.den = b.num * a.den
RatLe(a, b) == RatLt(a, b) \/ RatEq(a, b)

(***************************************************************************)
(* Cells, strings and frames.                                              *)
(***************************************************************************)
Num(n) == [nan |-> FALSE, v |-> n]
NaNNum == [nan |-> TRUE, v |-> 0]
Str(s) == [nan |-> FALSE, v |-> s]
NaNStr == [nan |-> TRUE, v |-> <<>>]
Bool(b) == [nan |-> FALSE, v |-> b]

Whitespace == {" "}

RECURSIVE lstrip(_)
lstrip(s) == IF s # <<>> /\ Head(s) \in Whitespace THEN lstrip(Tail(s)) ELSE s

RECURSIVE rstrip(_)
rstrip(s) ==
    IF s # <<>> /\ s[Len(s)] \in Whitespace THEN rstrip(SubSeq(s, 1, Len(s) - 1)) ELSE s

\* str.strip(): removes leading and trailing whitespace
strip(s) == rstrip(lstrip(s))

DataFrame(cols, types, rs) == [columns |-> cols, dtypes |-> types, rows |-> rs]
len(df) == Len(df.rows)
ColIdx(df) == 1..Len(df.columns)

\* the rows of rs whose index is in S, in their original order
RECURSIVE TakeIdx(_, _, _)
TakeIdx(rs, S, i) ==
    IF i > Len(rs) THEN <<>>
    ELSE (IF i \in S THEN <<rs[i]>> ELSE <<>>) \o TakeIdx(rs, S, i + 1)

\* DataFrame.duplicated(): rows equal to an earlier row (NaN equals NaN)
duplicated(df) == {i \in 1..len(df) : \E j \in 1..(i - 1) : df.rows[j] = df.rows[i]}

\* DataFrame.drop_duplicates(): keeps the first occurrence
drop_duplicates(df) ==
    [df EXCEPT !.rows = TakeIdx(df.rows, (1..len(df)) \ duplicated(df), 1)]

\* DataFrame.dropna(): drops every row holding a missing value
dropna(df) ==
    [df EXCEPT !.rows =
        TakeIdx(df.rows, {i \in 1..len(df) : \A c \in ColIdx(df) : ~df.rows[i][c].nan}, 1)]

\* DataFrame.select_dtypes(include=[kind]).columns, as column positions in order
select_dtypes(df, kind) == SelectSeq([c \in ColIdx(df) |-> c], LAMBDA c : df.dtypes[c] = kind)

SeqRange(s) == {s[i] : i \in 1..Len(s)}
Names(df, idx) == [k \in 1..Len(idx) |-> df.columns[idx[k]]]

\* df[col] = df[col].str.strip() for every object column
str_strip(df) ==
    [df EXCEPT !.rows =
        [i \in 1..len(df) |->
            [c \in ColIdx(df) |->
                IF df.dtypes[c] = "object" /\ ~df.rows[i][c].nan
                THEN Str(strip(df.rows[i][c].v))
                ELSE df.rows[i][c]]]]

(***************************************************************************)
(* CleanerAgent                                                            *)
(***************************************************************************)
\* variant: duplicates and rows with missing values are counted separately
clean_data_counted_twice(df0) ==
    LET original_rows == len(df0)
        df == str_strip(dropna(drop_duplicates(df0)))
        cleaned_rows == len(df)
        rows_removed == Cardinality(duplicated(df0))
            + Cardinality({i \in 1..len(df0) : \E c \in ColIdx(df0) : df0.rows[i][c].nan})
    IN  [cleaned_data |-> df,
         metadata |-> [original_rows |-> original_rows,
                       cleaned_rows |-> cleaned_rows,
                       rows_removed |-> rows_removed,
                       columns |-> df.columns,
                       dtypes |-> df.dtypes]]

clean_data(df0) ==
    LET original_rows == len(df0)
        df == str_strip(dropna(drop_duplicates(df0)))
        cleaned_rows == len(df)
        rows_removed == original_rows - cleaned_rows
    IN  [cleaned_data |-> df,
         metadata |-> [original_rows |-> original_rows,
                       cleaned_rows |-> cleaned_rows,
                       rows_removed |-> rows_removed,
                       columns |-> df.columns,
                       dtypes |-> df.dtypes]]

validate_data(df) ==
    [total_rows |-> len(df),
     total_columns |-> Len(df.columns),
     missing_values |-> [c \in ColIdx(df) |-> Cardinality({i \in 1..len(df) : df.rows[i][c].nan})],
     duplicate_rows |-> Cardinality(duplicated(df)),
     numeric_columns |-> Names(df, select_dtypes(df, "number")),
     categorical_columns |-> Names(df, select_dtypes(df, "object"))]

(***************************************************************************)
(* AnalystAgent                                                            *)
(***************************************************************************)
\* df[col] without its missing values (pandas reductions skip NaN)
Values(df, c) ==
    LET present == TakeIdx(df.rows, {i \in 1..len(df) : ~df.rows[i][c].nan}, 1)
    IN  [i \in 1..Len(present) |-> present[i][c].v]

RECURSIVE Insert(_, _)
Insert(x, s) ==
    IF s = <<>> THEN <<x>>
    ELSE IF x <= Head(s) THEN <<x>> \o s
    ELSE <<Head(s)>> \o Insert(x, Tail(s))

RECURSIVE sort_values(_)
sort_values(s) == IF s = <<>> THEN <<>> ELSE Insert(Head(s), sort_values(Tail(s)))

RECURSIVE Sum(_)
Sum(s) == IF s = <<>> THEN 0 ELSE Head(s) + Sum(Tail(s))

\* Series.mean(): NaN for an empty column
mean(xs) == Rat(Sum(xs), Len(xs))

\* Series.median(): middle value, or the mean of the two middle values
median(xs) ==
    LET s == sort_values(xs)
        n == Len(xs)
    IN  IF n = 0 THEN Rat(0, 0)
        ELSE IF n % 2 = 1 THEN FromInt(s[(n + 1) \div 2])
        ELSE Rat(s[n \div 2] + s[n \div 2 + 1], 2)

\* square of Series.std() (sample standard deviation, divisor n - 1)
variance(xs) ==
    LET n == Len(xs)
    IN  Rat(n * Sum([i \in 1..n |-> xs[i] * xs[i]]) - Sum(xs) * Sum(xs), n * (n - 1))

Min(S) == CHOOSE x \in S : \A y \in S : x <= y
Max(S) == CHOOSE x \in S : \A y \in S : x >= y

\* Series.quantile(k/4) with linear interpolation: position (n - 1) * k / 4
quantile(xs, k) ==
    LET s == sort_values(xs)
        n == Len(xs)
        pos4 == (n - 1) * k
        i == pos4 \div 4
        r == pos4 % 4
    IN  IF n = 0 THEN Rat(0, 0)
        ELSE IF r = 0 THEN FromInt(s[i + 1])
        ELSE RatAdd(FromInt(s[i + 1]), RatMul(Rat(r, 4), FromInt(s[i + 2] - s[i + 1])))

compute_statistics(df) ==
    LET numeric_cols == select_dtypes(df, "number")
    IN  [summary |-> IF Len(numeric_cols) > 0 THEN Names(df, numeric_cols) ELSE df.columns,
         correlations |-> IF Len(numeric_cols) > 1 THEN Names(df, numeric_cols) ELSE <<>>,
         numeric_columns_stats |->
            [k \in 1..Len(numeric_cols) |->
                LET xs == Values(df, numeric_cols[k])
                IN  [col |-> df.columns[numeric_cols[k]],
                     mean |-> mean(xs),
                     median |-> median(xs),
                     std |-> variance(xs),
                     min |-> IF xs = <<>> THEN Rat(0, 0) ELSE FromInt(Min(SeqRange(xs))),
                     max |-> IF xs = <<>> THEN Rat(0, 0) ELSE FromInt(Max(SeqRange(xs)))]]]

RightSkewFactor == Rat(6, 5)
LeftSkewFactor == Rat(4, 5)
UniqueThreshold == 10

Insight(kind, col, a, b) == [kind |-> kind, col |-> col, a |-> a, b |-> b]

\* variant: the two thresholds are tested independently (if ... if ...)
SkewInsight_independent(df, c) ==
    LET mean_val == mean(Values(df, c))
        median_val == median(Values(df, c))
    IN  (IF RatGt(mean_val, RatMul(median_val, RightSkewFactor))
         THEN <<Insight("right-skewed", df.columns[c], 0, 0)>> ELSE <<>>)
        \o (IF RatLt(mean_val, RatMul(median_val, LeftSkewFactor))
            THEN <<Insight("left-skewed", df.columns[c], 0, 0)>> ELSE <<>>)

SkewInsight(df, c) ==
    LET mean_val == mean(Values(df, c))
        median_val == median(Values(df, c))
    IN  IF RatGt(mean_val, RatMul(median_val, RightSkewFactor))
        THEN <<Insight("right-skewed", df.columns[c], 0, 0)>>
        ELSE IF RatLt(mean_val, RatMul(median_val, LeftSkewFactor))
        THEN <<Insight("left-skewed", df.columns[c], 0, 0)>>
        ELSE <<>>

UniqueInsight(df, c) ==
    LET unique_count == Cardinality(SeqRange(Values(df, c)))
    IN  IF unique_count < UniqueThreshold
        THEN <<Insight("unique", df.columns[c], unique_count, 0)>>
        ELSE <<>>

RECURSIVE SkewInsights(_, _)
SkewInsights(df, cols) ==
    IF cols = <<>> THEN <<>> ELSE SkewInsight(df, Head(cols)) \o SkewInsights(df, Tail(cols))

RECURSIVE UniqueInsights(_, _)
UniqueInsights(df, cols) ==
    IF cols = <<>> THEN <<>> ELSE UniqueInsight(df, Head(cols)) \o UniqueInsights(df, Tail(cols))

generate_insights(df) ==
    <<Insight("records", "", len(df), Len(df.columns))>>
        \o SkewInsights(df, select_dtypes(df, "number"))
        \o UniqueInsights(df, select_dtypes(df, "object"))

TukeyFactor == Rat(3, 2)

\* variant: values equal to a bound are counted (<= and >=)
OutlierEntry_inclusive(df, c) ==
    LET xs == Values(df, c)
        Q1 == quantile(xs, 1)
        Q3 == quantile(xs, 3)
        IQR == RatSub(Q3, Q1)
        lower_bound == RatSub(Q1, RatMul(TukeyFactor, IQR))
        upper_bound == RatAdd(Q3, RatMul(TukeyFactor, IQR))
        outlier_count ==
            Cardinality({i \in 1..Len(xs) :
                RatLe(FromInt(xs[i]), lower_bound) \/ RatLe(upper_bound, FromInt(xs[i]))})
    IN  [col |-> df.columns[c],
         count |-> outlier_count,
         percentage |-> RatMul(RatDiv(FromInt(outlier_count), FromInt(len(df))), FromInt(100)),
         bounds |-> [lower |-> lower_bound, upper |-> upper_bound]]

OutlierEntry(df, c) ==
    LET xs == Values(df, c)
        Q1 == quantile(xs, 1)
        Q3 == quantile(xs, 3)
        IQR == RatSub(Q3, Q1)
        lower_bound == RatSub(Q1, RatMul(TukeyFactor, IQR))
        upper_bound == RatAdd(Q3, RatMul(TukeyFactor, IQR))
        outlier_count ==
            Cardinality({i \in 1..Len(xs) :
                RatLt(FromInt(xs[i]), lower_bound) \/ RatGt(FromInt(xs[i]), upper_bound)})
    IN  [col |-> df.columns[c],
         count |-> outlier_count,
         percentage |-> RatMul(RatDiv(FromInt(outlier_count), FromInt(len(df))), FromInt(100)),
         bounds |-> [lower |-> lower_bound, upper |-> upper_bound]]

detect_outliers(df) ==
    LET numeric_cols == select_dtypes(df, "number")
    IN  [k \in 1..Len(numeric_cols) |-> OutlierEntry(df, numeric_cols[k])]

(***************************************************************************)
(* Input tables: what pandas.read_csv hands to the pipeline.               *)
(***************************************************************************)
SeqsUpTo(S, n) == UNION {[1..k -> S] : k \in 0..n}

NumCells == {Num(-1), Num(0), Num(1), Num(9), NaNNum}
TextCells == {Str(<<"a">>), Str(<<"a", " ">>), Str(<<" ", "a">>), Str(<<"b">>), NaNStr}
WideNumCells == {Num(0), NaNNum}
WideTextCells == {Str(<<"a">>), Str(<<"a", " ">>), NaNStr}
BoolCells == {Bool(TRUE), Bool(FALSE)}

NumericFrames ==
    {DataFrame(<<"x">>, <<"number">>, rs) : rs \in SeqsUpTo({<<a>> : a \in NumCells}, MaxRows)}
TextFrames ==
    {DataFrame(<<"s">>, <<"object">>, rs) : rs \in SeqsUpTo({<<a>> : a \in TextCells}, MaxWideRows)}
MixedFrames ==
    {DataFrame(<<"x", "s">>, <<"number", "object">>, rs) :
        rs \in SeqsUpTo({<<a, b>> : a \in WideNumCells, b \in WideTextCells}, MaxWideRows)}
FlagFrames ==
    {DataFrame(<<"x", "flag">>, <<"number", "bool">>, rs) :
        rs \in SeqsUpTo({<<a, b>> : a \in WideNumCells, b \in BoolCells}, MaxWideRows)}
PairFrames ==
    {DataFrame(<<"x", "y">>, <<"number", "number">>, rs) :
        rs \in SeqsUpTo({<<a, b>> : a \in WideNumCells, b \in {Num(0), Num(1)}}, MaxWideRows)}

(***************************************************************************)
(* The workflow of app.py.                                                 *)
(*                                                                         *)
(* channels  the graph's AnalysisState: one channel per key                *)
(* state     the dict handed to the running node, which the node mutates   *)
(* results   st.session_state['results']                                   *)
(* pc        the statement about to run                                    *)
(* trace     the nodes entered so far                                      *)
(* failed    the node that raised, or "none"                               *)
(* aliased   whether state["messages"] is the channel's own list object    *)
(* figures   number of open matplotlib figures                             *)
(* handle    whether the report file is open                               *)
(* sink      the artifact files in the output directory                    *)
(* loop      locals of create_distribution_plots                           *)
(***************************************************************************)
VARIABLES channels, state, results, pc, trace, failed, aliased, figures, handle, sink, loop

vars == <<channels, state, results, pc, trace, failed, aliased, figures, handle, sink, loop>>

None == [none |-> TRUE]
EmptyDict == <<>>

Msg(kind, n) == [kind |-> kind, n |-> n]

initial_state(df) ==
    [raw_data |-> df,
     cleaned_data |-> None,
     cleaning_metadata |-> EmptyDict,
     validation_report |-> EmptyDict,
     statistics |-> EmptyDict,
     insights |-> <<>>,
     outliers |-> EmptyDict,
     visualizations |-> EmptyDict,
     report_path |-> "",
     messages |-> <<>>]

Init ==
    /\ \/ \E df \in NumericFrames : state = initial_state(df)
       \/ \E df \in TextFrames : state = initial_state(df)
       \/ \E df \in MixedFrames : state = initial_state(df)
       \/ \E df \in FlagFrames : state = initial_state(df)
       \/ \E df \in PairFrames : state = initial_state(df)
    /\ channels = state
    /\ results = None
    /\ pc = "idle"
    /\ trace = <<>>
    /\ failed = "none"
    /\ aliased \in BOOLEAN
    /\ figures = 0
    /\ handle = FALSE
    /\ sink = [complete |-> {}, partial |-> {}]
    /\ loop = [i |-> 1, saved_files |-> <<>>]

\* variant: the node mutates the graph's own dict
in_place_shared(ch, st) == st

\* What the channels hold while a node mutates its dict st: item assignments
\* stay in the node's dict; an in-place append reaches the channel only when
\* the list object is shared.
in_place(ch, st) == [ch EXCEPT !.messages = IF aliased THEN st.messages ELSE @]

\* messages: Annotated[list, operator.add]; every other key keeps the last value
apply_writes(ch, returned) == [returned EXCEPT !.messages = ch.messages \o returned.messages]

\* state["messages"].append(msg); return state
node_returns(msg) ==
    LET returned == [state EXCEPT !.messages = Append(@, msg)]
    IN  apply_writes(in_place(channels, returned), returned)

Resources == <<figures, handle, sink, loop>>

\* final_state = app.invoke(initial_state)
invoke ==
    /\ pc = "idle"
    /\ pc' = "load_data"
    /\ trace' = <<"load_data">>
    /\ UNCHANGED <<channels, state, results, failed, aliased, Resources>>

load_data_node ==
    /\ pc = "load_data"
    /\ channels' = node_returns(Msg("loaded", 0))
    /\ state' = channels'
    /\ pc' = "clean:32"
    /\ trace' = Append(trace, "clean_data")
    /\ UNCHANGED <<results, failed, aliased, Resources>>

cleaning_clean ==
    /\ pc = "clean:32"
    /\ LET cleaning_result == clean_data(state.raw_data)
       IN  state' = [state EXCEPT !.cleaned_data = cleaning_result.cleaned_data,
                                  !.cleaning_metadata = cleaning_result.metadata]
    /\ channels' = in_place(channels, state')
    /\ pc' = "clean:35"
    /\ UNCHANGED <<results, trace, failed, aliased, Resources>>

cleaning_validate ==
    /\ pc = "clean:35"
    /\ state' = [state EXCEPT !.validation_report = validate_data(state.cleaned_data)]
    /\ channels' = in_place(channels, state')
    /\ pc' = "clean:36"
    /\ UNCHANGED <<results, trace, failed, aliased, Resources>>

cleaning_return ==
    /\ pc = "clean:36"
    /\ channels' = node_returns(Msg("cleaned", state.cleaning_metadata.rows_removed))
    /\ state' = channels'
    /\ pc' = "analyze:44"
    /\ trace' = Append(trace, "analyze_data")
    /\ UNCHANGED <<results, failed, aliased, Resources>>

analysis_statistics ==
    /\ pc = "analyze:44"
    /\ state' = [state EXCEPT !.statistics = compute_statistics(state.cleaned_data)]
    /\ channels' = in_place(channels, state')
    /\ pc' = "analyze:45"
    /\ UNCHANGED <<results, trace, failed, aliased, Resources>>

analysis_insights ==
    /\ pc = "analyze:45"
    /\ state' = [state EXCEPT !.insights = generate_insights(state.cleaned_data)]
    /\ channels' = in_place(channels, state')
    /\ pc' = "analyze:46"
    /\ UNCHANGED <<results, trace, failed, aliased, Resources>>

analysis_outliers ==
    /\ pc = "analyze:46"
    /\ state' = [state EXCEPT !.outliers = detect_outliers(state.cleaned_data)]
    /\ channels' = in_place(channels, state')
    /\ pc' = "analyze:47"
    /\ UNCHANGED <<results, trace, failed, aliased, Resources>>

analysis_return ==
    /\ pc = "analyze:47"
    /\ channels' = node_returns(Msg("analysis", Len(state.insights)))
    /\ state' = channels'
    /\ pc' = "viz:subplots"
    /\ trace' = Append(trace, "visualize_data")
    /\ UNCHANGED <<results, failed, aliased, Resources>>

(***************************************************************************)
(* VisualizerAgent, one action per acquire, write and release.             *)
(***************************************************************************)
Distribution(col) == <<"distribution", col>>
Heatmap == <<"correlation_heatmap", "">>
Report == <<"analysis_report", "">>

written(sk, artifact) ==
    [complete |-> sk.complete \cup {artifact}, partial |-> sk.partial \ {artifact}]
truncated(sk, artifact) ==
    [complete |-> sk.complete \ {artifact}, partial |-> sk.partial \cup {artifact}]

plot_cols == Names(state.cleaned_data, select_dtypes(state.cleaned_data, "number"))

\* fig, axes = plt.subplots(1, 2, ...); hist; boxplot; tight_layout
distribution_subplots ==
    /\ pc = "viz:subplots"
    /\ loop.i <= Len(plot_cols)
    /\ figures' = figures + 1
    /\ pc' = "viz:savefig"
    /\ UNCHANGED <<channels, state, results, trace, failed, aliased, handle, sink, loop>>

\* plt.savefig(filepath, ...)
distribution_savefig ==
    /\ pc = "viz:savefig"
    /\ sink' = written(sink, Distribution(plot_cols[loop.i]))
    /\ pc' = "viz:close"
    /\ UNCHANGED <<channels, state, results, trace, failed, aliased, figures, handle, loop>>

\* plt.close(); saved_files[col] = filepath
distribution_close ==
    /\ pc = "viz:close"
    /\ figures' = figures - 1
    /\ loop' = [i |-> loop.i + 1, saved_files |-> Append(loop.saved_files, plot_cols[loop.i])]
    /\ pc' = "viz:subplots"
    /\ UNCHANGED <<channels, state, results, trace, failed, aliased, handle, sink>>

\* return saved_files
distribution_return ==
    /\ pc = "viz:subplots"
    /\ loop.i > Len(plot_cols)
    /\ pc' = "viz:heatmap"
    /\ UNCHANGED <<channels, state, results, trace, failed, aliased, Resources>>

visualizations(dist_plots, heatmap) ==
    [distributions |-> dist_plots, correlation_heatmap |-> heatmap]

\* if len(numeric_cols) < 2: return None
heatmap_none ==
    /\ pc = "viz:heatmap"
    /\ Len(plot_cols) < 2
    /\ state' = [state EXCEPT !.visualizations = visualizations(loop.saved_files, <<>>)]
    /\ channels' = in_place(channels, state')
    /\ pc' = "viz:open"
    /\ UNCHANGED <<results, trace, failed, aliased, Resources>>

\* plt.figure(...); corr(); sns.heatmap(...); tight_layout
heatmap_figure ==
    /\ pc = "viz:heatmap"
    /\ Len(plot_cols) >= 2
    /\ figures' = figures + 1
    /\ pc' = "viz:heat_savefig"
    /\ UNCHANGED <<channels, state, results, trace, failed, aliased, handle, sink, loop>>

heatmap_savefig ==
    /\ pc = "viz:heat_savefig"
    /\ sink' = written(sink, Heatmap)
    /\ pc' = "viz:heat_close"
    /\ UNCHANGED <<channels, state, results, trace, failed, aliased, figures, handle, loop>>

\* plt.close(); return filepath
heatmap_close ==
    /\ pc = "viz:heat_close"
    /\ figures' = figures - 1
    /\ state' = [state EXCEPT !.visualizations = visualizations(loop.saved_files, Heatmap)]
    /\ channels' = in_place(channels, state')
    /\ pc' = "viz:open"
    /\ UNCHANGED <<results, trace, failed, aliased, handle, sink, loop>>

\* with open(report_path, 'w') as f: the file is created or truncated
report_open ==
    /\ pc = "viz:open"
    /\ handle' = TRUE
    /\ sink' = truncated(sink, Report)
    /\ pc' = "viz:write"
    /\ UNCHANGED <<channels, state, results, trace, failed, aliased, figures, loop>>

\* every f.write(...) and the exit of the with block
report_write ==
    /\ pc = "viz:write"
    /\ handle' = FALSE
    /\ sink' = written(sink, Report)
    /\ pc' = "viz:64"
    /\ UNCHANGED <<channels, state, results, trace, failed, aliased, figures, loop>>

\* state["report_path"] = ...; append; return; app.invoke returns the final state
visualization_return ==
    /\ pc = "viz:64"
    /\ LET returned == [state EXCEPT !.report_path = "analysis_report.txt",
                                     !.messages = Append(@, Msg("visualized", Len(loop.saved_files)))]
       IN  channels' = apply_writes(in_place(channels, returned), returned)
    /\ state' = channels'
    /\ results' = channels'
    /\ pc' = "done"
    /\ UNCHANGED <<trace, failed, aliased, Resources>>

(***************************************************************************)
(* Failures.  No node and no caller of app.invoke catches an exception.    *)
(***************************************************************************)
StageAt(p) ==
    IF p \in {"clean:32", "clean:35"} THEN "clean_data"
    ELSE IF p \in {"analyze:44", "analyze:45", "analyze:46"} THEN "analyze_data"
    ELSE "visualize_data"

\* a call of an agent method raises
stage_raises ==
    /\ pc \in {"clean:32", "clean:35", "analyze:44", "analyze:45", "analyze:46"}
    /\ failed' = StageAt(pc)
    /\ pc' = "aborted"
    /\ UNCHANGED <<channels, state, results, trace, aliased, Resources>>

\* drawing or plt.savefig raises: nothing closes the figure, and the image
\* file is missing or cut short
savefig_raises ==
    /\ pc \in {"viz:savefig", "viz:heat_savefig"}
    /\ LET artifact == IF pc = "viz:savefig" THEN Distribution(plot_cols[loop.i]) ELSE Heatmap
       IN  sink' \in {sink, truncated(sink, artifact)}
    /\ failed' = "visualize_data"
    /\ pc' = "aborted"
    /\ UNCHANGED <<channels, state, results, trace, aliased, figures, handle, loop>>

\* a write to the report raises: the with block closes the file, what was
\* written stays
report_raises ==
    /\ pc = "viz:write"
    /\ handle' = FALSE
    /\ failed' = "visualize_data"
    /\ pc' = "aborted"
    /\ UNCHANGED <<channels, state, results, trace, aliased, figures, sink, loop>>

Next ==
    \/ invoke
    \/ load_data_node
    \/ cleaning_clean
    \/ cleaning_validate
    \/ cleaning_return
    \/ analysis_statistics
    \/ analysis_insights
    \/ analysis_outliers
    \/ analysis_return
    \/ distribution_subplots
    \/ distribution_savefig
    \/ distribution_close
    \/ distribution_return
    \/ heatmap_none
    \/ heatmap_figure
    \/ heatmap_savefig
    \/ heatmap_close
    \/ report_open
    \/ report_write
    \/ visualization_return
    \/ stage_raises
    \/ savefig_raises
    \/ report_raises

Spec == Init /\ [][Next]_vars

(***************************************************************************)
(* Reference definitions used by the properties: order statistics by       *)
(* counting, quartiles and medians as scaled integers.                     *)
(***************************************************************************)
OrderStat(xs, k) ==
    CHOOSE v \in SeqRange(xs) :
        /\ Cardinality({i \in 1..Len(xs) : xs[i] < v}) < k
        /\ k <= Cardinality({i \in 1..Len(xs) : xs[i] <= v})

\* four times the quartile k/4 of a non-empty column
Quartile4(xs, k) ==
    LET h == (Len(xs) - 1) * k
        lo == h \div 4 + 1
        hi == IF h % 4 = 0 THEN lo ELSE lo + 1
    IN  (4 - (h % 4)) * OrderStat(xs, lo) + (h % 4) * OrderStat(xs, hi)

\* eight times the Tukey fences
Lower8(xs) == 2 * Quartile4(xs, 1) - 3 * (Quartile4(xs, 3) - Quartile4(xs, 1))
Upper8(xs) == 2 * Quartile4(xs, 3) + 3 * (Quartile4(xs, 3) - Quartile4(xs, 1))

\* twice the median of a non-empty column
Median2(xs) == OrderStat(xs, (Len(xs) + 1) \div 2) + OrderStat(xs, (Len(xs) + 2) \div 2)

\* mean > median * 1.2 and mean < median * 0.8, over the integers
CrossesRight(xs) == Len(xs) > 0 /\ 10 * Sum(xs) > 6 * Len(xs) * Median2(xs)
CrossesLeft(xs) == Len(xs) > 0 /\ 10 * Sum(xs) < 4 * Len(xs) * Median2(xs)

Rank(node) ==
    CASE node = "load_data" -> 1
      [] node = "clean_data" -> 2
      [] node = "analyze_data" -> 3
      [] node = "visualize_data" -> 4
      [] OTHER -> 5

MsgRank(kind) ==
    CASE kind = "loaded" -> 1
      [] kind = "cleaned" -> 2
      [] kind = "analysis" -> 3
      [] kind = "visualized" -> 4

Kinds(msgs) == [i \in 1..Len(msgs) |-> msgs[i].kind]

Cleaned == state.cleaned_data # None
Validated == pc \notin {"idle", "load_data", "clean:32", "clean:35"}
    /\ ~(pc = "aborted" /\ failed = "clean_data")
InsightsDone == pc \in {"analyze:46", "analyze:47"}
OutliersDone == pc = "analyze:47"
NumericCols == select_dtypes(state.cleaned_data, "number")

(***************************************************************************)
(* Properties.                                                             *)
(***************************************************************************)

\* C1: in a run in which no stage fails, the log of the final state holds
\* exactly the four completion messages (loaded, cleaned, analysis complete,
\* visualizations created), in that order, each once, and the four stages
\* were entered once each in the order Load, Clean, Analyze, Visualize.
C1_FinalLogHoldsFourMessages ==
    pc = "done" =>
        /\ trace = <<"load_data", "clean_data", "analyze_data", "visualize_data">>
        /\ Kinds(results.messages) = <<"loaded", "cleaned", "analysis", "visualized">>

\* C2: when a stage fails the run is aborted and nothing is returned to the
\* caller; the failing stage is the last one entered; the log of the graph's
\* state holds no message of the failing stage or of a later one; every field
\* owned by the failing stage or by a later one still has its initial value,
\* and the fields of the stages completed before hold their outputs.
C2_AbortKeepsCompletedStagesOnly ==
    failed # "none" =>
        /\ pc = "aborted"
        /\ results = None
        /\ trace[Len(trace)] = failed
        /\ \A i \in 1..Len(channels.messages) :
                MsgRank(channels.messages[i].kind) < Rank(failed)
        /\ Rank(failed) <= 2 =>
                /\ channels.cleaned_data = None
                /\ channels.cleaning_metadata = EmptyDict
                /\ channels.validation_report = EmptyDict
        /\ Rank(failed) <= 3 =>
                /\ channels.statistics = EmptyDict
                /\ channels.insights = <<>>
                /\ channels.outliers = EmptyDict
        /\ Rank(failed) <= 4 =>
                /\ channels.visualizations = EmptyDict
                /\ channels.report_path = ""
        /\ Rank(failed) > 2 =>
                /\ channels.cleaned_data = clean_data(channels.raw_data).cleaned_data
                /\ channels.cleaning_metadata # EmptyDict
                /\ channels.validation_report # EmptyDict
        /\ Rank(failed) > 3 =>
                /\ channels.statistics # EmptyDict
                /\ channels.insights # <<>>

\* a stage failed after it had already assigned some of its fields in its dict
C2_Witness ==
    /\ pc = "aborted"
    /\ failed = "analyze_data"
    /\ state.statistics # EmptyDict
    /\ state.insights # <<>>
    /\ channels.cleaned_data # None

\* C3: cleaning is a fixed point: cleaning the cleaned table removes no row
\* and returns a table equal to its input.
C3_CleaningIsFixedPoint ==
    Cleaned =>
        /\ clean_data(state.cleaned_data).metadata.rows_removed = 0
        /\ clean_data(state.cleaned_data).cleaned_data = state.cleaned_data

\* C4: the validation report computed over the cleaned table by the Clean
\* stage reports zero missing values in every column and zero duplicate rows.
C4_CleanedTableValidatesClean ==
    Validated =>
        /\ \A c \in DOMAIN state.validation_report.missing_values :
                state.validation_report.missing_values[c] = 0
        /\ state.validation_report.duplicate_rows = 0

\* C5: the cleaning metadata satisfies cleaned_rows <= original_rows and
\* rows_removed = original_rows - cleaned_rows >= 0, with original_rows the
\* row count of the raw table and cleaned_rows that of the cleaned table;
\* rows_removed is the number of raw rows that are a duplicate of an earlier
\* row or hold a missing value, each such row counted once.
C5_RowCountsConsistent ==
    Cleaned =>
        LET meta == state.cleaning_metadata
            raw == state.raw_data
            removed == duplicated(raw) \cup
                {i \in 1..len(raw) : \E c \in ColIdx(raw) : raw.rows[i][c].nan}
        IN  /\ meta.original_rows = Len(raw.rows)
            /\ meta.cleaned_rows = Len(state.cleaned_data.rows)
            /\ meta.cleaned_rows <= meta.original_rows
            /\ meta.rows_removed = meta.original_rows - meta.cleaned_rows
            /\ meta.rows_removed >= 0
            /\ meta.rows_removed = Cardinality(removed)

\* a raw row is both a duplicate and holds a missing value
C5_Witness ==
    /\ Cleaned
    /\ \E i \in duplicated(state.raw_data) :
            \E c \in ColIdx(state.raw_data) : state.raw_data.rows[i][c].nan
    /\ state.cleaning_metadata.cleaned_rows > 0

\* C6: for a cleaned table with zero rows and at least one numeric column the
\* outlier report has count 0 and percentage 0 for every numeric column.
C6_EmptyTableReportsZeroPercent ==
    (OutliersDone /\ len(state.cleaned_data) = 0) =>
        \A k \in DOMAIN state.outliers :
            /\ state.outliers[k].count = 0
            /\ RatEq(state.outliers[k].percentage, FromInt(0))

\* C7: for a non-empty cleaned table and every numeric column of it, the
\* reported bounds are Q1 - 1.5*(Q3-Q1) and Q3 + 1.5*(Q3-Q1) for the
\* linear-interpolation quartiles, lower <= Q1 <= Q3 <= upper, and the count
\* is the number of rows strictly below the lower or strictly above the upper
\* bound.
C7_TukeyFences ==
    (OutliersDone /\ len(state.cleaned_data) > 0) =>
        /\ Len(state.outliers) = Len(NumericCols)
        /\ \A k \in 1..Len(NumericCols) :
            LET xs == [i \in 1..len(state.cleaned_data) |->
                            state.cleaned_data.rows[i][NumericCols[k]].v]
                entry == state.outliers[k]
            IN  /\ entry.col = state.cleaned_data.columns[NumericCols[k]]
                /\ RatEq(entry.bounds.lower, Rat(Lower8(xs), 8))
                /\ RatEq(entry.bounds.upper, Rat(Upper8(xs), 8))
                /\ Lower8(xs) <= 2 * Quartile4(xs, 1)
                /\ Quartile4(xs, 1) <= Quartile4(xs, 3)
                /\ 2 * Quartile4(xs, 3) <= Upper8(xs)
                /\ entry.count = Cardinality({i \in 1..Len(xs) :
                        8 * xs[i] < Lower8(xs) \/ 8 * xs[i] > Upper8(xs)})

\* a column of the cleaned table has an outlier
C7_Witness ==
    /\ OutliersDone
    /\ len(state.cleaned_data) > 0
    /\ \E k \in DOMAIN state.outliers : state.outliers[k].count > 0

\* C8: when the visualization stage fails in the middle of an artifact write,
\* no figure and no file is left open and no partially written artifact is
\* left in the output directory.
C8_WritesAreScoped ==
    pc = "aborted" =>
        /\ figures = 0
        /\ handle = FALSE
        /\ sink.partial = {}

HasInsight(kind, col) ==
    \E i \in 1..Len(state.insights) :
        state.insights[i].kind = kind /\ state.insights[i].col = col

ColumnValues(c) == [i \in 1..len(state.cleaned_data) |-> state.cleaned_data.rows[i][c].v]

\* C9 as stated: for every numeric column a right-skew insight is emitted
\* exactly when mean > median * 1.2 and a left-skew insight exactly when
\* mean < median * 0.8.
C9_SkewInsightsIndependent ==
    InsightsDone =>
        \A k \in 1..Len(NumericCols) :
            LET col == state.cleaned_data.columns[NumericCols[k]]
                xs == ColumnValues(NumericCols[k])
            IN  /\ HasInsight("right-skewed", col) <=> CrossesRight(xs)
                /\ HasInsight("left-skewed", col) <=> CrossesLeft(xs)

\* C9 amended: a right-skew insight is emitted exactly when
\* mean > median * 1.2; a left-skew insight exactly when mean < median * 0.8
\* and not mean > median * 1.2; at most one skew insight per column.
C9_SkewInsightsRightFirst ==
    InsightsDone =>
        \A k \in 1..Len(NumericCols) :
            LET col == state.cleaned_data.columns[NumericCols[k]]
                xs == ColumnValues(NumericCols[k])
            IN  /\ HasInsight("right-skewed", col) <=> CrossesRight(xs)
                /\ HasInsight("left-skewed", col) <=> (CrossesLeft(xs) /\ ~CrossesRight(xs))
                /\ Cardinality({i \in 1..Len(state.insights) :
                        /\ state.insights[i].col = col
                        /\ state.insights[i].kind \in {"right-skewed", "left-skewed"}}) <= 1

\* a column of negative values crossing both thresholds: only right-skew
C9_Witness ==
    /\ InsightsDone
    /\ \E k \in 1..Len(NumericCols) :
        /\ CrossesRight(ColumnValues(NumericCols[k]))
        /\ CrossesLeft(ColumnValues(NumericCols[k]))
        /\ HasInsight("right-skewed", state.cleaned_data.columns[NumericCols[k]])

\* C10: the numeric_columns and categorical_columns of the validation report
\* are disjoint and together hold every column of the table exactly once.
C10_TypesPartitionColumns ==
    Validated =>
        LET report == state.validation_report
        IN  /\ SeqRange(report.numeric_columns) \cap SeqRange(report.categorical_columns) = {}
            /\ SeqRange(report.numeric_columns) \cup SeqRange(report.categorical_columns)
                    = SeqRange(state.cleaned_data.columns)
            /\ Len(report.numeric_columns) + Len(report.categorical_columns)
                    = report.total_columns

====
